---- MODULE Spec2Model ----
(***************************************************************************)
(* A model of axlearn/cloud/gcp/job.py: the GKE JobSet compiler            *)
(* (GKEJob._build_jobset and its TPU/GPU variants), the job lifecycle      *)
(* (GKEJob.__init__, _execute, _delete against a cluster), and the remote  *)
(* command formatter of CPUJob (_prepare_cmd_for_gcloud_ssh,               *)
(* _execute_remote_cmd).                                                   *)
(*                                                                         *)
(* Strings that the code formats character by character are sequences of   *)
(* one-character strings; strings the code only passes along (annotation   *)
(* keys, queue names, exception names) are TLA+ strings.                   *)
(***************************************************************************)
EXTENDS Integers, Sequences, FiniteSets, TLC

VARIABLES
    bcfg,      \* SpecBuild: the config _build_jobset is applied to
    bout,      \* SpecBuild: what _build_jobset did: [built, kind, raised, jobset]
    cmd,       \* SpecCmd: the command handed to _prepare_cmd_for_gcloud_ssh
    prepared,  \* SpecCmd: [done, out]: the escaped command
    job,       \* Spec: the job object the caller holds, or NoJob
    cluster,   \* Spec: the JobSets the cluster holds, as <<namespace, name>>
    last       \* Spec: the last call: what was called, what it issued and how it ended

vars == <<bcfg, bout, cmd, prepared, job, cluster, last>>

----------------------------------------------------------------------------
(* Characters.  A TLA+ string cannot hold a backquote, so it is named.     *)

DQ == "\""
SQ == "'"
BS == "\\"
DOLLAR == "$"
BT == "backquote"
SP == " "

Letters ==
    {"a","b","c","d","e","f","g","h","i","j","k","l","m",
     "n","o","p","q","r","s","t","u","v","w","x","y","z",
     "A","B","C","D","E","F","G","H","I","J","K","L","M",
     "N","O","P","Q","R","S","T","U","V","W","X","Y","Z"}

Digits == {"0","1","2","3","4","5","6","7","8","9"}

\* shlex.quote's _find_unsafe: anything outside [\w@%+=:,./-] is unsafe.
SafeChars == Letters \cup Digits \cup {"_","@","%","+","=",":",",",".","/","-"}

\* s with every occurrence of the character c replaced by the string rep.
RECURSIVE replace(_, _, _)
replace(s, c, rep) ==
    IF s = <<>> THEN <<>>
    ELSE (IF Head(s) = c THEN rep ELSE <<Head(s)>>) \o replace(Tail(s), c, rep)

\* shlex.quote(s)
shlex_quote(s) ==
    IF s = <<>> THEN <<SQ, SQ>>
    ELSE IF \A i \in 1..Len(s) : s[i] \in SafeChars THEN s
    ELSE <<SQ>> \o replace(s, SQ, <<SQ, DQ, SQ, DQ, SQ>>) \o <<SQ>>

_prepare_cmd_for_gcloud_ssh(c) ==
    replace(replace(shlex_quote(c), DQ, <<BS, DQ>>), DOLLAR, <<BS, DOLLAR>>)

----------------------------------------------------------------------------
(* What a POSIX shell makes of a command line: its words, quotes removed.  *)
(* ok is FALSE when the line is not plain words: an expansion or a command *)
(* substitution happens, a control operator splits it, or a quote is left  *)
(* open.                                                                   *)

\* After an unquoted or double-quoted $, these start an expansion.
ExpansionStart ==
    Letters \cup Digits \cup {"_", DOLLAR, "(", "{", "@", "*", "#", "?", "-", "!"}

\* Inside double quotes a backslash escapes only these.
DQEscapable == {DOLLAR, BT, DQ, BS}

Metachars == {"&", ";", "|", "(", ")", "<", ">"}

ShellFail == [ok |-> FALSE, words |-> <<>>]

\* mode: "u" unquoted, "s" inside '...', "d" inside "...".
\* cur: the word being read; inword: whether a word has begun.
RECURSIVE ShellScan(_, _, _, _, _, _)
ShellScan(s, i, mode, cur, inword, words) ==
    IF i > Len(s) THEN
        IF mode # "u" THEN ShellFail
        ELSE [ok |-> TRUE, words |-> IF inword THEN Append(words, cur) ELSE words]
    ELSE LET c == s[i] IN
      CASE mode = "s" ->
            IF c = SQ THEN ShellScan(s, i + 1, "u", cur, TRUE, words)
            ELSE ShellScan(s, i + 1, "s", Append(cur, c), TRUE, words)
        [] mode = "d" ->
            IF c = DQ THEN ShellScan(s, i + 1, "u", cur, TRUE, words)
            ELSE IF c = BS THEN
                IF i = Len(s) THEN ShellFail
                ELSE IF s[i + 1] \in DQEscapable
                     THEN ShellScan(s, i + 2, "d", Append(cur, s[i + 1]), TRUE, words)
                     ELSE ShellScan(s, i + 1, "d", Append(cur, BS), TRUE, words)
            ELSE IF c = BT THEN ShellFail
            ELSE IF c = DOLLAR /\ i < Len(s) /\ s[i + 1] \in ExpansionStart THEN ShellFail
            ELSE ShellScan(s, i + 1, "d", Append(cur, c), TRUE, words)
        [] OTHER ->
            IF c = SQ THEN ShellScan(s, i + 1, "s", cur, TRUE, words)
            ELSE IF c = DQ THEN ShellScan(s, i + 1, "d", cur, TRUE, words)
            ELSE IF c = BS THEN
                IF i = Len(s) THEN ShellFail
                ELSE ShellScan(s, i + 2, "u", Append(cur, s[i + 1]), TRUE, words)
            ELSE IF c = SP THEN
                ShellScan(s, i + 1, "u", <<>>, FALSE,
                          IF inword THEN Append(words, cur) ELSE words)
            ELSE IF c = BT \/ c \in Metachars THEN ShellFail
            ELSE IF c = DOLLAR /\ i < Len(s)
                    /\ s[i + 1] \in ExpansionStart \cup {SQ, DQ} THEN ShellFail
            ELSE ShellScan(s, i + 1, "u", Append(cur, c), TRUE, words)

ShellWords(s) == ShellScan(s, 1, "u", <<>>, FALSE, <<>>)

\* The prefix of s of length n, and whether p begins s.
StartsWith(s, p) == Len(p) <= Len(s) /\ SubSeq(s, 1, Len(p)) = p

\* Whether sub occurs in s.
Contains(s, sub) ==
    \E i \in 1..(Len(s) - Len(sub) + 1) : SubSeq(s, i, i + Len(sub) - 1) = sub

\* The literal pieces of the command lines the code formats.
PUSHD == <<"p","u","s","h","d",SP,"/","r","o","o","t",SP,"&","&",SP>>
LOGIN_SHELL == <<"s","u","d","o",SP,"-","i",SP,"b","a","s","h",SP,"-","c",SP>>
SCREEN == <<"s","u","d","o",SP,"s","c","r","e","e","n",SP,"-","d","m","S",SP>>
GCLOUD_SSH == <<"g","c","l","o","u","d",SP,"c","o","m","p","u","t","e",SP,"-","q",SP,"s","s","h",SP>>
OPT_PROJECT == <<SP,"-","-","p","r","o","j","e","c","t","=">>
OPT_ZONE == <<SP,"-","-","z","o","n","e","=">>
OPT_COMMAND == <<SP,"-","-","c","o","m","m","a","n","d","=">>

\* The escaped command x as the code embeds it: --command="x" (the option
\* without the blank before it).
CommandOption(x) == Tail(OPT_COMMAND) \o <<DQ>> \o x \o <<DQ>>

\* What the remote side receives: the local shell reads the --command="..."
\* word and removes its quoting.  ok is FALSE when the word is not read as
\* one literal argument.
RemoteReceives(x) ==
    LET r == ShellWords(CommandOption(x))
        opt == Tail(OPT_COMMAND)
    IN  IF r.ok /\ Len(r.words) = 1 /\ StartsWith(r.words[1], opt)
        THEN [ok |-> TRUE, text |-> SubSeq(r.words[1], Len(opt) + 1, Len(r.words[1]))]
        ELSE [ok |-> FALSE, text |-> <<>>]

\* The escaped command x round-trips to c: the local shell passes it on as one
\* literal argument and the remote shell reads that as the single word c.
RoundTrips(c, x) ==
    LET got == RemoteReceives(x)
    IN  /\ got.ok
        /\ ShellWords(got.text) = [ok |-> TRUE, words |-> <<c>>]

----------------------------------------------------------------------------
(* The commands SpecCmd tries: every string of at most MaxCmdLen           *)
(* characters over an alphabet with each shell-special character.          *)

MaxCmdLen == 3

CmdAlphabet == {"a", SP, DQ, DOLLAR, SQ, BS, BT}

CmdStrings == UNION {[1..n -> CmdAlphabet] : n \in 0..MaxCmdLen}


----------------------------------------------------------------------------
(* Python values.  An Optional[str] is None or a string.                   *)

None == [isNone |-> TRUE, val |-> <<>>]
Some(v) == [isNone |-> FALSE, val |-> v]

\* Python's truth value of an Optional[str]: None and "" are false.
Truthy(o) == ~o.isNone /\ o.val # <<>>

EmptyDict == [k \in {} |-> <<>>]

\* dict.update: the keys of u are set, the other keys of d are kept.
update(d, u) == u @@ d

QUEUE_NAME == "kueue.x-k8s.io/queue-name"
EXCLUSIVE_TOPOLOGY == "alpha.jobset.sigs.k8s.io/exclusive-topology"
GKE_NODEPOOL == "cloud.google.com/gke-nodepool"

----------------------------------------------------------------------------
(* Configs.  GKEJob.Config and CPUJob.Config as one record: a field a      *)
(* class does not read is left at its default.                             *)

MaxTries == 3

Names == {<<"j","1">>, <<"j","2">>}
Namespaces == {<<"d","e","f","a","u","l","t">>, <<"n","s">>}
Queues == {None, Some(<<>>), Some(<<"q","1">>), Some(<<"q","2">>)}

\* What the instantiated replicated-job builder returns when called: one or
\* more replicated job specs, opaque here.
BuilderOutputs == {<<"rjob-a">>, <<"rjob-a", "rjob-b">>}

\* cfg.bundler: None, or a bundler config with its class and, for a wrapping
\* bundler, the config it wraps under "inner" (itself None or a config).
NoInner == [isNone |-> TRUE, klass |-> "", hasInner |-> FALSE]
NoBundler == [isNone |-> TRUE, klass |-> "", hasInner |-> FALSE, inner |-> NoInner]
Bundler(klass) == [isNone |-> FALSE, klass |-> klass, hasInner |-> FALSE, inner |-> NoInner]
Wrapping(klass, inner) == [isNone |-> FALSE, klass |-> klass, hasInner |-> TRUE, inner |-> inner]
Inner(klass, wraps) == [isNone |-> FALSE, klass |-> klass, hasInner |-> wraps]

\* The classes for which issubclass(klass, BaseDockerBundler) holds.
DockerBundlers == {"DockerBundler", "ArtifactRegistryBundler"}

Bundlers ==
    { NoBundler,
      Bundler("DockerBundler"),
      Bundler("ArtifactRegistryBundler"),
      Bundler("GCSTarBundler"),
      Wrapping("WrappedBundler", Inner("DockerBundler", FALSE)),
      Wrapping("WrappedBundler", Inner("GCSTarBundler", FALSE)),
      Wrapping("WrappedBundler", NoInner),
      Wrapping("WrappedBundler", Inner("WrappedBundler", TRUE)),
      Wrapping("DockerBundler", Inner("GCSTarBundler", FALSE)) }

PROJECT == <<"p","r","o","j">>
ZONE == <<"z","1">>

Config(name, namespace, max_tries, queue, builder, bundler, command) ==
    [name |-> name, namespace |-> namespace, max_tries |-> max_tries,
     queue |-> queue, builder |-> builder, bundler |-> bundler,
     command |-> command, project |-> PROJECT, zone |-> ZONE]

DefaultConfig ==
    Config(<<>>, <<"d","e","f","a","u","l","t">>, 1, None, <<>>, NoBundler, <<>>)

----------------------------------------------------------------------------
(* The JobSet compiler.                                                    *)

\* self._builder(): the replicated job specs of the configured builder.
_builder(cfg) == cfg.builder

\* Fault: maxRestarts is max_tries.
build_jobset_restarts_off_by_one(cfg) ==
    [metadata |-> [name |-> cfg.name,
                   annotations |-> IF Truthy(cfg.queue)
                                   THEN QUEUE_NAME :> cfg.queue.val ELSE EmptyDict],
     spec |-> [failurePolicy |-> [maxRestarts |-> cfg.max_tries],
               replicatedJobs |-> _builder(cfg)]]

\* Fault: the queue test is "is not None".
build_jobset_queue_not_none(cfg) ==
    [metadata |-> [name |-> cfg.name,
                   annotations |-> IF ~cfg.queue.isNone
                                   THEN QUEUE_NAME :> cfg.queue.val ELSE EmptyDict],
     spec |-> [failurePolicy |-> [maxRestarts |-> cfg.max_tries - 1],
               replicatedJobs |-> _builder(cfg)]]

\* GKEJob._build_jobset
GKEJob_build_jobset(cfg) ==
    LET annotations == IF Truthy(cfg.queue)
                       THEN QUEUE_NAME :> cfg.queue.val
                       ELSE EmptyDict
    IN  [metadata |-> [name |-> cfg.name, annotations |-> annotations],
         spec |-> [failurePolicy |-> [maxRestarts |-> cfg.max_tries - 1],
                   replicatedJobs |-> _builder(cfg)]]

\* Fault: the annotations are replaced, not updated.
TPU_build_jobset_replaces_annotations(cfg) ==
    [GKEJob_build_jobset(cfg) EXCEPT
        !.metadata.annotations = EXCLUSIVE_TOPOLOGY :> GKE_NODEPOOL]

\* Fault: the override is missing.
TPU_build_jobset_not_overridden(cfg) == GKEJob_build_jobset(cfg)

\* TPUGKEJob._build_jobset
TPUGKEJob_build_jobset(cfg) ==
    LET jobset == GKEJob_build_jobset(cfg)
    IN  [jobset EXCEPT
            !.metadata.annotations = update(@, EXCLUSIVE_TOPOLOGY :> GKE_NODEPOOL)]

\* GPUGKEJob inherits GKEJob._build_jobset.
GPUGKEJob_build_jobset(cfg) == GKEJob_build_jobset(cfg)

\* _build_jobset as the class of the job resolves it.
_build_jobset(kind, cfg) ==
    CASE kind = "TPUGKEJob" -> TPUGKEJob_build_jobset(cfg)
      [] kind = "GPUGKEJob" -> GPUGKEJob_build_jobset(cfg)
      [] OTHER -> GKEJob_build_jobset(cfg)

----------------------------------------------------------------------------
(* The state the three specifications start from.                          *)

NoJob == [kind |-> "none", cfg |-> DefaultConfig]

NoCall ==
    [op |-> "none", raised |-> "", clusterRaised |-> "",
     bundler |-> NoBundler, steps |-> <<>>, creates |-> <<>>, deletes |-> <<>>,
     existed |-> FALSE, command |-> <<>>, session |-> None, ran |-> <<>>]

NotBuilt ==
    [built |-> FALSE, kind |-> "none", raised |-> "",
     jobset |-> GKEJob_build_jobset(DefaultConfig)]

NotPrepared == [done |-> FALSE, out |-> <<>>]

----------------------------------------------------------------------------
(* SpecCmd: _prepare_cmd_for_gcloud_ssh applied to every short command.    *)

InitCmd ==
    /\ cmd \in CmdStrings /\ prepared = NotPrepared
    /\ bcfg = DefaultConfig /\ bout = NotBuilt
    /\ job = NoJob /\ cluster = {} /\ last = NoCall

PrepareCmd ==
    /\ ~prepared.done
    /\ prepared' = [done |-> TRUE, out |-> _prepare_cmd_for_gcloud_ssh(cmd)]
    /\ UNCHANGED <<bcfg, bout, cmd, job, cluster, last>>

NextCmd == PrepareCmd

SpecCmd == InitCmd /\ [][NextCmd]_vars

----------------------------------------------------------------------------
(* SpecBuild: _build_jobset of each class applied to every config.         *)

BuildConfigs ==
    { Config(n, <<"d","e","f","a","u","l","t">>, t, q, b, Bundler("DockerBundler"), <<>>) :
        n \in Names, t \in 0..MaxTries, q \in Queues, b \in BuilderOutputs }

InitBuild ==
    /\ bcfg \in BuildConfigs /\ bout = NotBuilt
    /\ cmd = <<>> /\ prepared = NotPrepared
    /\ job = NoJob /\ cluster = {} /\ last = NoCall

Build(kind) ==
    /\ ~bout.built
    /\ bout' = [built |-> TRUE, kind |-> kind, raised |-> "",
                jobset |-> _build_jobset(kind, bcfg)]
    /\ UNCHANGED <<bcfg, cmd, prepared, job, cluster, last>>

GKEJob_build == Build("GKEJob")
TPUGKEJob_build == Build("TPUGKEJob")
GPUGKEJob_build == Build("GPUGKEJob")

NextBuild == GKEJob_build \/ TPUGKEJob_build \/ GPUGKEJob_build

SpecBuild == InitBuild /\ [][NextBuild]_vars


----------------------------------------------------------------------------
(* Spec: the lifecycle.  A caller constructs jobs and calls _execute and   *)
(* _delete on the job it holds; the cluster answers the requests.          *)

GKEKinds == {"TPUGKEJob", "GPUGKEJob"}

ECHO_HI == <<"e","c","h","o",SP,"h","i">>
ECHO_VAR == <<"e","c","h","o",SP,DQ,DOLLAR,"x",DQ>>
Commands == {ECHO_HI, ECHO_VAR}

SESS == <<"s","e","s","s">>
Sessions == {None, Some(<<>>), Some(SESS)}

LifeBundlers == Bundlers \ {Bundler("ArtifactRegistryBundler")}

GKEConfigs ==
    { Config(n, ns, MaxTries, Some(<<"q","1">>), <<"rjob-a">>, b, <<>>) :
        n \in Names, ns \in Namespaces, b \in LifeBundlers }

CPUConfigs ==
    { Config(n, <<"d","e","f","a","u","l","t">>, 1, None, <<>>, Bundler("GCSTarBundler"), c) :
        n \in Names, c \in Commands }

\* The record of a call: NoCall with the given fields set.
Call(op, fields) ==
    [f \in DOMAIN NoCall |->
        IF f = "op" THEN op
        ELSE IF f \in DOMAIN fields THEN fields[f]
        ELSE NoCall[f]]

Init ==
    /\ job = NoJob /\ cluster = {} /\ last = NoCall
    /\ bcfg = DefaultConfig /\ bout = NotBuilt
    /\ cmd = <<>> /\ prepared = NotPrepared

\* getattr(bundler_cfg, "inner", bundler_cfg)
unwrap_inner(bundler_cfg) ==
    IF ~bundler_cfg.isNone /\ bundler_cfg.hasInner THEN bundler_cfg.inner ELSE bundler_cfg

\* Fault: the bundler is checked after the base class is initialised.
init_steps_check_after_super(cfg) ==
    LET bundler_cfg == unwrap_inner(cfg.bundler)
    IN  IF bundler_cfg.isNone \/ bundler_cfg.klass \notin DockerBundlers
        THEN [raised |-> "NotImplementedError", steps |-> <<"Job.__init__">>]
        ELSE [raised |-> "", steps |-> <<"Job.__init__", "builder.instantiate">>]

\* The steps of GKEJob.__init__ for cfg, in order, and the exception that ends
\* them ("" when none does).
init_steps(cfg) ==
    LET bundler_cfg == unwrap_inner(cfg.bundler)
    IN  IF bundler_cfg.isNone \/ bundler_cfg.klass \notin DockerBundlers
        THEN [raised |-> "NotImplementedError", steps |-> <<>>]
        ELSE [raised |-> "", steps |-> <<"Job.__init__", "builder.instantiate">>]

\* GKEJob.__init__ (TPUGKEJob and GPUGKEJob inherit it).  When it raises, no
\* object comes to be and the caller holds what it held.
GKEJob__init__ ==
    \E kind \in GKEKinds, cfg \in GKEConfigs :
        LET r == init_steps(cfg)
        IN  /\ job' = IF r.raised = "" THEN [kind |-> kind, cfg |-> cfg] ELSE job
            /\ last' = Call("GKEJob.__init__",
                            [raised |-> r.raised, steps |-> r.steps, bundler |-> cfg.bundler])
            /\ UNCHANGED <<cluster, bcfg, bout, cmd, prepared>>

\* CPUJob defines no __init__.
CPUJob__init__ ==
    \E cfg \in CPUConfigs :
        /\ job' = [kind |-> "CPUJob", cfg |-> cfg]
        /\ last' = Call("CPUJob.__init__", [steps |-> <<"Job.__init__">>, bundler |-> cfg.bundler])
        /\ UNCHANGED <<cluster, bcfg, bout, cmd, prepared>>

\* custom_jobset_kwargs(): the API group, version and plural of the JobSet
\* custom resource.
custom_jobset_kwargs ==
    [group |-> "jobset.x-k8s.io", version |-> "v1alpha2", plural |-> "jobsets"]

\* The custom object _execute submits.
custom_object(kind, cfg) ==
    LET api_kwargs == custom_jobset_kwargs
        jobset == _build_jobset(kind, cfg)
    IN  [apiVersion |-> <<api_kwargs.group, "/", api_kwargs.version>>,
         kind |-> "JobSet",
         metadata |-> jobset.metadata,
         spec |-> jobset.spec]

\* The create request _execute issues.
create_request(kind, cfg) ==
    [namespace |-> cfg.namespace, body |-> custom_object(kind, cfg),
     api_kwargs |-> custom_jobset_kwargs]

\* How the cluster may answer a create request: "" is success.  A name the
\* namespace already holds is a conflict; otherwise the cluster accepts the
\* object or refuses it (quota).
CreateAnswers(req) ==
    IF <<req.namespace, req.body.metadata.name>> \in cluster
    THEN {"ApiException(409)"}
    ELSE {"", "ApiException(403)"}

\* Fault: a failed create is tried once more.
GKEJob_execute_retries ==
    /\ job.kind \in GKEKinds
    /\ LET req == create_request(job.kind, job.cfg)
       IN  \E answer \in CreateAnswers(req) :
            /\ cluster' = IF answer = ""
                          THEN cluster \cup {<<req.namespace, req.body.metadata.name>>}
                          ELSE cluster
            /\ last' = Call("GKEJob._execute",
                            [raised |-> answer, clusterRaised |-> answer,
                             creates |-> IF answer = "" THEN <<req>> ELSE <<req, req>>])
    /\ UNCHANGED <<job, bcfg, bout, cmd, prepared>>

\* GKEJob._execute: one create_namespaced_custom_object call; what it raises
\* is raised to the caller.
GKEJob_execute ==
    /\ job.kind \in GKEKinds
    /\ LET req == create_request(job.kind, job.cfg)
       IN  \E answer \in CreateAnswers(req) :
            /\ cluster' = IF answer = ""
                          THEN cluster \cup {<<req.namespace, req.body.metadata.name>>}
                          ELSE cluster
            /\ last' = Call("GKEJob._execute",
                            [raised |-> answer, clusterRaised |-> answer,
                             creates |-> <<req>>])
    /\ UNCHANGED <<job, bcfg, bout, cmd, prepared>>

\* delete_k8s_jobset(name, namespace=namespace) on the JobSets cl: the JobSet
\* is deleted; one that does not exist is no error.
delete_k8s_jobset(name, namespace, cl) ==
    IF <<namespace, name>> \in cl
    THEN [raised |-> "", cluster |-> cl \ {<<namespace, name>>}]
    ELSE [raised |-> "", cluster |-> cl]

\* Fault: the JobSet is deleted from the default namespace.
GKEJob_delete_default_namespace ==
    /\ job.kind \in GKEKinds
    /\ LET cfg == job.cfg
           r == delete_k8s_jobset(cfg.name, <<"d","e","f","a","u","l","t">>, cluster)
       IN  /\ cluster' = r.cluster
           /\ last' = Call("GKEJob._delete",
                           [raised |-> r.raised,
                            existed |-> <<cfg.namespace, cfg.name>> \in cluster,
                            deletes |-> <<[name |-> cfg.name,
                                           namespace |-> <<"d","e","f","a","u","l","t">>]>>])
    /\ UNCHANGED <<job, bcfg, bout, cmd, prepared>>

\* GKEJob._delete
GKEJob_delete ==
    /\ job.kind \in GKEKinds
    /\ LET cfg == job.cfg
           r == delete_k8s_jobset(cfg.name, cfg.namespace, cluster)
       IN  /\ cluster' = r.cluster
           /\ last' = Call("GKEJob._delete",
                           [raised |-> r.raised,
                            existed |-> <<cfg.namespace, cfg.name>> \in cluster,
                            deletes |-> <<[name |-> cfg.name, namespace |-> cfg.namespace]>>])
    /\ UNCHANGED <<job, bcfg, bout, cmd, prepared>>

\* Fault: the screen wrapper goes inside the login shell invocation.
remote_cmd_screen_inside(cfg, c, detached_session) ==
    LET c1 == _prepare_cmd_for_gcloud_ssh(PUSHD \o c)
        c2 == IF Truthy(detached_session)
              THEN LOGIN_SHELL \o SCREEN \o detached_session.val \o <<SP>> \o c1
              ELSE LOGIN_SHELL \o c1
    IN  GCLOUD_SSH \o cfg.name \o OPT_PROJECT \o cfg.project
            \o OPT_ZONE \o cfg.zone \o OPT_COMMAND \o <<DQ>> \o c2 \o <<DQ>>

\* The command line _execute_remote_cmd hands to subprocess_run.
remote_cmd(cfg, c, detached_session) ==
    LET c1 == _prepare_cmd_for_gcloud_ssh(PUSHD \o c)
        c2 == LOGIN_SHELL \o c1
        c3 == IF Truthy(detached_session)
              THEN SCREEN \o detached_session.val \o <<SP>> \o c2
              ELSE c2
    IN  GCLOUD_SSH \o cfg.name \o OPT_PROJECT \o cfg.project
            \o OPT_ZONE \o cfg.zone \o OPT_COMMAND \o <<DQ>> \o c3 \o <<DQ>>

\* subprocess_run with check=True: a non-zero exit raises.
SubprocessAnswers == {"", "CalledProcessError"}

\* CPUJob._execute_remote_cmd(c, detached_session=...), called as op.
RunRemote(op, c, detached_session) ==
    \E answer \in SubprocessAnswers :
        /\ last' = Call(op, [raised |-> answer, command |-> c,
                             session |-> detached_session,
                             ran |-> <<remote_cmd(job.cfg, c, detached_session)>>])
        /\ UNCHANGED <<job, cluster, bcfg, bout, cmd, prepared>>

CPUJob_execute_remote_cmd ==
    /\ job.kind = "CPUJob"
    /\ \E c \in Commands, detached_session \in Sessions :
        RunRemote("CPUJob._execute_remote_cmd", c, detached_session)

\* CPUJob._execute
CPUJob_execute ==
    /\ job.kind = "CPUJob"
    /\ RunRemote("CPUJob._execute", job.cfg.command, None)

Next ==
    \/ GKEJob__init__
    \/ CPUJob__init__
    \/ GKEJob_execute
    \/ GKEJob_delete
    \/ CPUJob_execute_remote_cmd
    \/ CPUJob_execute

Spec == Init /\ [][Next]_vars


----------------------------------------------------------------------------
(* The claims.                                                             *)

Annotations == bout.jobset.metadata.annotations

\* C1: for every config with max_tries >= 1 and every variant (base GKE, TPU,
\* GPU), the built document has spec.failurePolicy.maxRestarts = max_tries - 1.
C1_MaxRestarts ==
    (bout.built /\ bcfg.max_tries >= 1)
        => bout.jobset.spec.failurePolicy.maxRestarts = bcfg.max_tries - 1

C1_Witness ==
    /\ bout.built /\ bout.kind = "GPUGKEJob" /\ bcfg.max_tries = 3
    /\ bout.jobset.spec.failurePolicy.maxRestarts = 2

\* C2 as claimed: with no queue set the annotations have no queue-name key;
\* with a queue set to any string, the empty string included, the key is
\* present and its value is the queue name.
C2_QueueAnyString ==
    bout.built =>
        IF bcfg.queue.isNone
        THEN QUEUE_NAME \notin DOMAIN Annotations
        ELSE QUEUE_NAME \in DOMAIN Annotations /\ Annotations[QUEUE_NAME] = bcfg.queue.val

\* C2 as amended: with no queue set, or the empty string as queue, the
\* annotations have no queue-name key; with a non-empty queue name the key is
\* present and its value is the queue name exactly.
C2_QueueNonEmpty ==
    bout.built =>
        IF bcfg.queue.isNone \/ Len(bcfg.queue.val) = 0
        THEN QUEUE_NAME \notin DOMAIN Annotations
        ELSE QUEUE_NAME \in DOMAIN Annotations /\ Annotations[QUEUE_NAME] = bcfg.queue.val

C2_Witness ==
    /\ bout.built /\ bout.kind = "GKEJob"
    /\ bcfg.queue = Some(<<"q","2">>)
    /\ Annotations = (QUEUE_NAME :> <<"q","2">>)

\* C3: every document the TPU variant builds has the exclusive-topology
\* annotation, and no document the GPU variant builds has it.
C3_ExclusiveTopology ==
    bout.built =>
        /\ bout.kind = "TPUGKEJob" => EXCLUSIVE_TOPOLOGY \in DOMAIN Annotations
        /\ bout.kind = "GPUGKEJob" => EXCLUSIVE_TOPOLOGY \notin DOMAIN Annotations

C3_Witness ==
    /\ bout.built /\ bout.kind = "TPUGKEJob" /\ bcfg.queue.isNone
    /\ DOMAIN Annotations = {EXCLUSIVE_TOPOLOGY}

C5_OneCreate ==
    last.op = "GKEJob._execute" =>
        /\ Len(last.creates) = 1
        /\ last.creates[1].namespace = job.cfg.namespace
        /\ last.creates[1].body.metadata.name = job.cfg.name
        /\ last.raised = last.clusterRaised
        /\ last.raised = "" => <<job.cfg.namespace, job.cfg.name>> \in cluster

C5_Witness ==
    /\ last.op = "GKEJob._execute" /\ last.raised = "ApiException(409)"
    /\ Len(last.creates) = 1
    /\ job.cfg.namespace = <<"n","s">>

\* C6: with max_tries < 1, building the document fails with a ConfigError
\* and no document is returned.
C6_ConfigError ==
    (bout.built /\ bcfg.max_tries < 1) => bout.raised = "ConfigError"

\* C7: for every command over an alphabet with ", $, blank, ', \ and the
\* backquote, the output of _prepare_cmd_for_gcloud_ssh, put inside
\* --command="..." and read by the local and then the remote shell, is the
\* command again.
C7_RoundTrip ==
    prepared.done => RoundTrips(cmd, prepared.out)

\* C8: the TPU document's annotations are the base document's plus the
\* exclusive-topology key, a configured queue annotation keeps its value, and
\* metadata.name, spec.failurePolicy and spec.replicatedJobs are the base
\* document's.
C8_AdditiveMerge ==
    (bout.built /\ bout.kind = "TPUGKEJob") =>
        LET base == GKEJob_build_jobset(bcfg)
        IN  /\ DOMAIN Annotations = DOMAIN base.metadata.annotations \cup {EXCLUSIVE_TOPOLOGY}
            /\ \A k \in DOMAIN base.metadata.annotations :
                    Annotations[k] = base.metadata.annotations[k]
            /\ Annotations[EXCLUSIVE_TOPOLOGY] = GKE_NODEPOOL
            /\ bout.jobset.metadata.name = bcfg.name
            /\ bout.jobset.spec.failurePolicy = base.spec.failurePolicy
            /\ bout.jobset.spec.replicatedJobs = bcfg.builder

C8_Witness ==
    /\ bout.built /\ bout.kind = "TPUGKEJob"
    /\ bcfg.queue = Some(<<"q","1">>)
    /\ DOMAIN Annotations = {QUEUE_NAME, EXCLUSIVE_TOPOLOGY}
    /\ Annotations[QUEUE_NAME] = <<"q","1">>

SCREEN_DMS == <<"s","c","r","e","e","n",SP,"-","d","m","S",SP>>

\* C9: a CPU job's remote command has "screen -dmS S" in front of the login
\* shell invocation of the escaped payload when a detached session S is given
\* and no screen wrapper when none is; the CPU path issues no create request.
C9_DetachedSession ==
    last.op \in {"CPUJob._execute_remote_cmd", "CPUJob._execute"} =>
        LET payload == _prepare_cmd_for_gcloud_ssh(PUSHD \o last.command)
            login == <<"s","u","d","o",SP,"-","i",SP,"b","a","s","h",SP,"-","c",SP>>
        IN  /\ Len(last.ran) = 1
            /\ IF ~last.session.isNone /\ Len(last.session.val) > 0
               THEN Contains(last.ran[1],
                             SCREEN_DMS \o last.session.val \o <<SP>> \o login \o payload)
               ELSE /\ ~Contains(last.ran[1], SCREEN_DMS)
                    /\ Contains(last.ran[1], <<"=", DQ>> \o login \o payload)
            /\ last.op = "CPUJob._execute" => last.session.isNone
            /\ last.creates = <<>>

C9_Witness ==
    /\ last.op = "CPUJob._execute_remote_cmd"
    /\ last.command = ECHO_HI /\ last.session = Some(SESS)
    /\ Contains(last.ran[1], SCREEN_DMS \o SESS)
    /\ cluster # {}

\* The bundler config is missing, or is no docker bundler after one "inner"
\* level is unwrapped.
NoDockerBundler(b) ==
    \/ b.isNone
    \/ ~b.hasInner /\ b.klass \notin DockerBundlers
    \/ b.hasInner /\ (b.inner.isNone \/ b.inner.klass \notin DockerBundlers)

\* C10: constructing a GKE job whose bundler config is missing or is no docker
\* bundler fails with an error before the base job is initialised and before
\* the builder is instantiated, so no job that can issue requests has such a
\* config.
C10_BundlerChecked ==
    /\ (last.op = "GKEJob.__init__" /\ NoDockerBundler(last.bundler))
            => last.raised # "" /\ last.steps = <<>>
    /\ (last.op = "GKEJob.__init__" /\ ~NoDockerBundler(last.bundler))
            => last.raised = "" /\ job.cfg.bundler = last.bundler
    /\ job.kind \in GKEKinds => ~NoDockerBundler(job.cfg.bundler)

C10_Witness ==
    /\ last.op = "GKEJob.__init__"
    /\ last.bundler = Wrapping("WrappedBundler", Inner("GCSTarBundler", FALSE))
    /\ last.raised = "NotImplementedError"
    /\ job.kind \in GKEKinds

====
